---- MODULE Spec2Model ----
(***************************************************************************)
(* Model of update_deps.py and update_deps_stable.py: the dependency       *)
(* version updater that scans Cargo.toml line by line, looks every matched *)
(* dependency entry up in the registry and rewrites the line in place.     *)
(*                                                                         *)
(* Text is modelled as sequences of one-character strings; a file is the   *)
(* sequence of its characters, a line the characters up to and including   *)
(* its terminator.                                                         *)
(***************************************************************************)
EXTENDS Integers, Sequences, FiniteSets, TLC

VARIABLES
    disk,       \* content of Cargo.toml, a sequence of characters
    pc,         \* position of process_file: start, loop, done, crashed (resolver: a lone resolver call)
    lines,      \* process_file: lines
    new_lines,  \* process_file: new_lines
    idx,        \* position of the for loop in lines (1-based)
    in_deps,    \* process_file: in_deps
    stdout,     \* "Updating ..." diagnostics printed, in order
    stderr,     \* "Error fetching ..." diagnostics printed, in order
    lookups,    \* registry requests issued, in order
    log,        \* what the loop did with each line, in order
    reads,      \* how many times the manifest was read
    writes,     \* how many times the manifest was written
    variant,    \* "latest" (update_deps.py) or "stable" (update_deps_stable.py)
    run,        \* 1 for the first run of the script, 2 for a second run
    registry,   \* the registry's answer per package name (fixed-registry runs)
    disk1,      \* the file as the first run left it
    body,       \* resolver check: the response handed to the resolver
    result      \* resolver check: what the resolver returned

vars == <<disk, pc, lines, new_lines, idx, in_deps, stdout, stderr, lookups,
          log, reads, writes, variant, run, registry, disk1, body, result>>

----------------------------------------------------------------------------
(* Characters and string primitives                                        *)

Lower == {"a","b","c","d","e","f","g","h","i","j","k","l","m",
          "n","o","p","q","r","s","t","u","v","w","x","y","z"}
Digit == {"0","1","2","3","4","5","6","7","8","9"}

\* the character class [a-z0-9-_] of both entry patterns
NameChars == Lower \cup Digit \cup {"-", "_"}

\* the characters str.strip() removes and \s matches
Whitespace == {" ", "\t", "\n", "\r"}

\* s[p], or "" when p is outside s
At(s, p) == IF p >= 1 /\ p <= Len(s) THEN s[p] ELSE ""

RECURSIVE lstrip(_)
lstrip(s) ==
    IF s = <<>> THEN s
    ELSE IF Head(s) \in Whitespace THEN lstrip(Tail(s)) ELSE s

RECURSIVE rstrip(_)
rstrip(s) ==
    IF s = <<>> THEN s
    ELSE IF s[Len(s)] \in Whitespace THEN rstrip(SubSeq(s, 1, Len(s) - 1)) ELSE s

\* str.strip()
strip(s) == rstrip(lstrip(s))

\* str.startswith / str.endswith
startswith(s, p) == Len(s) >= Len(p) /\ SubSeq(s, 1, Len(p)) = p
endswith(s, p) == Len(s) >= Len(p) /\ SubSeq(s, Len(s) - Len(p) + 1, Len(s)) = p

\* Concatenation of a sequence of strings
RECURSIVE Concat(_)
Concat(ss) == IF ss = <<>> THEN <<>> ELSE Head(ss) \o Concat(Tail(ss))

\* First position q >= p of s whose character is not in S (Len(s)+1 if none):
\* where a greedy S* started at p stops.
RECURSIVE SkipWhile(_, _, _)
SkipWhile(s, p, S) ==
    IF p > Len(s) THEN p
    ELSE IF s[p] \in S THEN SkipWhile(s, p + 1, S) ELSE p

\* First position q >= p of s holding character c (Len(s)+1 if none)
RECURSIVE Find(_, _, _)
Find(s, p, c) ==
    IF p > Len(s) THEN p
    ELSE IF s[p] = c THEN p ELSE Find(s, p + 1, c)

\* Position after the literal lit when s holds it at p, else 0
Literal(s, p, lit) ==
    IF p >= 1 /\ p + Len(lit) - 1 <= Len(s) /\ SubSeq(s, p, p + Len(lit) - 1) = lit
    THEN p + Len(lit) ELSE 0

\* Last position q in p..hi of s holding "}" (0 if none): where the greedy
\* (.*)\} of the inline pattern puts the closing brace; "." stops at "\n".
RECURSIVE LastBrace(_, _, _)
LastBrace(s, p, hi) ==
    IF hi < p THEN 0
    ELSE IF s[hi] = "}" THEN hi ELSE LastBrace(s, p, hi - 1)

KW_version == <<"v","e","r","s","i","o","n">>

\* A failed match; in a successful one, stop is the position of the last
\* character the pattern consumed (m.end())
NoMatch == [ok |-> FALSE, name |-> <<>>, ver |-> <<>>, suffix |-> <<>>, stop |-> 0]

\* re.match(r'^([a-z0-9-_]+)\s*=\s*\{\s*version\s*=\s*"([^"]+)"(.*)\}', stripped)
match_inline(stripped) ==
    LET s  == stripped
        p1 == SkipWhile(s, 1, NameChars)
        p2 == SkipWhile(s, p1, Whitespace)
        p3 == SkipWhile(s, p2 + 1, Whitespace)
        p4 == SkipWhile(s, p3 + 1, Whitespace)
        p5 == Literal(s, p4, KW_version)
        p6 == SkipWhile(s, p5, Whitespace)
        p7 == SkipWhile(s, p6 + 1, Whitespace)
        p8 == Find(s, p7 + 1, "\"")
        nl == Find(s, p8 + 1, "\n")
        p9 == LastBrace(s, p8 + 1, nl - 1)
    IN  IF /\ p1 > 1
           /\ At(s, p2) = "="
           /\ At(s, p3) = "{"
           /\ p5 # 0
           /\ At(s, p6) = "="
           /\ At(s, p7) = "\""
           /\ p8 > p7 + 1
           /\ p8 <= Len(s)
           /\ p9 # 0
        THEN [ok |-> TRUE,
              name |-> SubSeq(s, 1, p1 - 1),
              ver |-> SubSeq(s, p7 + 1, p8 - 1),
              suffix |-> SubSeq(s, p8 + 1, p9 - 1),
              stop |-> p9]
        ELSE NoMatch

\* re.match(r'^([a-z0-9-_]+)\s*=\s*"([^"]+)"', stripped)
match_str(stripped) ==
    LET s  == stripped
        p1 == SkipWhile(s, 1, NameChars)
        p2 == SkipWhile(s, p1, Whitespace)
        p3 == SkipWhile(s, p2 + 1, Whitespace)
        p4 == Find(s, p3 + 1, "\"")
    IN  IF /\ p1 > 1
           /\ At(s, p2) = "="
           /\ At(s, p3) = "\""
           /\ p4 > p3 + 1
           /\ p4 <= Len(s)
        THEN [ok |-> TRUE,
              name |-> SubSeq(s, 1, p1 - 1),
              ver |-> SubSeq(s, p3 + 1, p4 - 1),
              suffix |-> <<>>,
              stop |-> p4]
        ELSE NoMatch

\* f'{name} = {{ version = "{latest}"{suffix}}}\n'
format_inline(name, latest, suffix) ==
    name \o <<" ", "=", " ", "{", " ">> \o KW_version \o <<" ", "=", " ", "\"">>
         \o latest \o <<"\"">> \o suffix \o <<"}", "\n">>

\* f'{name} = "{latest}"\n'
format_str(name, latest) ==
    name \o <<" ", "=", " ", "\"">> \o latest \o <<"\"", "\n">>

----------------------------------------------------------------------------
(* The registry and the two resolvers                                      *)

\* A version the resolver returns, or None
None == [some |-> FALSE, v |-> <<>>]
Some(v) == [some |-> TRUE, v |-> v]

\* Python truthiness of the resolver's result: None and "" are falsy
Truthy(latest) == latest.some /\ latest.v # <<>>

V1 == <<"1">>
V2 == <<"2">>
VPre == <<"2", "-", "b">>
VEmpty == <<>>
VNewline == <<"2", "\n", "a", "=">>
VQuote == <<"2", "\"">>
VReturn == <<"2", "\r">>

\* What requests.get does for one request: exc is the exception it raises
\* ("none" when it returns), status the HTTP status, json_ok whether the body
\* decodes, crate_ok whether body['crate']['max_version'] exists, and the
\* decoded fields.
Response(exc, status, json_ok, crate_ok, max_version, has_versions, versions) ==
    [exc |-> exc, status |-> status, json_ok |-> json_ok, crate_ok |-> crate_ok,
     max_version |-> max_version, has_versions |-> has_versions,
     versions |-> versions]

Timeout    == Response("timeout", 0, FALSE, FALSE, <<>>, FALSE, <<>>)
NetworkErr == Response("network", 0, FALSE, FALSE, <<>>, FALSE, <<>>)
Status404  == Response("none", 404, FALSE, FALSE, <<>>, FALSE, <<>>)
BadJson    == Response("none", 200, FALSE, FALSE, <<>>, FALSE, <<>>)
NoCrate    == Response("none", 200, TRUE, FALSE, <<>>, FALSE, <<>>)
Ok(max_version) == Response("none", 200, TRUE, TRUE, max_version, FALSE, <<>>)
OkVersions(max_version, versions) ==
    Response("none", 200, TRUE, TRUE, max_version, TRUE, versions)

Ver(num, yanked) == [num |-> num, yanked |-> yanked]

\* What one call of get_latest_version does: the value returned, whether the
\* except clause printed "Error fetching ...", with which detail, and whether
\* an exception left the function.
Returned(ret) == [ret |-> ret, printed |-> FALSE, detail |-> "", raised |-> FALSE]
Caught(detail) == [ret |-> None, printed |-> TRUE, detail |-> detail, raised |-> FALSE]
Escaped(detail) == [ret |-> None, printed |-> FALSE, detail |-> detail, raised |-> TRUE]

get_latest_version_propagating(resp) ==
    IF resp.exc # "none" THEN Escaped(resp.exc)
    ELSE IF resp.status = 200 THEN
        IF ~resp.json_ok THEN Caught("json")
        ELSE IF ~resp.crate_ok THEN Caught("key")
        ELSE Returned(Some(resp.max_version))
    ELSE Returned(None)

\* update_deps.py: get_latest_version
get_latest_version(resp) ==
    IF resp.exc # "none" THEN Caught(resp.exc)
    ELSE IF resp.status = 200 THEN
        IF ~resp.json_ok THEN Caught("json")
        ELSE IF ~resp.crate_ok THEN Caught("key")
        ELSE Returned(Some(resp.max_version))
    ELSE Returned(None)

\* '-' not in num
NoHyphen(num) == \A k \in 1..Len(num) : num[k] # "-"

RECURSIVE first_stable_ignoring_yanked(_)
first_stable_ignoring_yanked(versions) ==
    IF versions = <<>> THEN None
    ELSE IF NoHyphen(Head(versions).num) THEN Some(Head(versions).num)
    ELSE first_stable_ignoring_yanked(Tail(versions))

\* update_deps_stable.py: the for loop over versions; None when it falls through
RECURSIVE first_stable(_)
first_stable(versions) ==
    IF versions = <<>> THEN None
    ELSE IF ~Head(versions).yanked /\ NoHyphen(Head(versions).num)
         THEN Some(Head(versions).num)
         ELSE first_stable(Tail(versions))

\* update_deps_stable.py: get_latest_version
get_latest_version_stable(resp) ==
    IF resp.exc # "none" THEN Caught(resp.exc)
    ELSE IF resp.status = 200 THEN
        IF ~resp.json_ok THEN Caught("json")
        ELSE LET versions == IF resp.has_versions THEN resp.versions ELSE <<>>
                 found == first_stable(versions)
             IN  IF found.some THEN Returned(found)
                 ELSE IF ~resp.crate_ok THEN Caught("key")
                 ELSE Returned(Some(resp.max_version))
    ELSE Returned(None)

\* The resolver of the variant being run
resolve(v, resp) ==
    IF v = "stable" THEN get_latest_version_stable(resp) ELSE get_latest_version(resp)

----------------------------------------------------------------------------
(* Reading and writing the manifest                                        *)

\* Text-mode read: "\r\n" and "\r" arrive as "\n"
universal_newlines(b) ==
    LET t == [k \in 1..Len(b) |->
                 IF b[k] = "\n" /\ k > 1 /\ b[k - 1] = "\r" THEN ""
                 ELSE IF b[k] = "\r" THEN "\n"
                 ELSE b[k]]
    IN  SelectSeq(t, LAMBDA c : c # "")

RECURSIVE split_lines(_)
split_lines(t) ==
    IF t = <<>> THEN <<>>
    ELSE LET k == Find(t, 1, "\n")
             e == IF k > Len(t) THEN Len(t) ELSE k
         IN  <<SubSeq(t, 1, e)>> \o split_lines(SubSeq(t, e + 1, Len(t)))

\* open("Cargo.toml", "r") ... f.readlines()
readlines(b) == split_lines(universal_newlines(b))

\* open("Cargo.toml", "w") ... f.writelines(new_lines), "\n" written as is
writelines(ls) == Concat(ls)

----------------------------------------------------------------------------
(* process_file                                                            *)

S_dependencies == <<"[","d","e","p","e","n","d","e","n","c","i","e","s","]">>
S_dev_dependencies == <<"[","d","e","v","-","d","e","p","e","n","d","e","n","c","i","e","s","]">>
S_build_dependencies == <<"[","b","u","i","l","d","-","d","e","p","e","n","d","e","n","c","i","e","s","]">>

dep_sections_prefix == {<<"[","d","e","p","e","n","d","e","n","c","i","e","s">>,
                        <<"[","d","e","v","-","d","e","p","e","n","d","e","n","c","i","e","s">>,
                        <<"[","b","u","i","l","d","-","d","e","p","e","n","d","e","n","c","i","e","s">>}

\* dep_sections = ['[dependencies]', '[dev-dependencies]', '[build-dependencies]']
dep_sections == {S_dependencies, S_dev_dependencies, S_build_dependencies}

\* stripped.startswith('[') and stripped.endswith(']')
is_header(stripped) == startswith(stripped, <<"[">>) /\ endswith(stripped, <<"]">>)

\* any(stripped.startswith(s) for s in dep_sections)
header_in_deps(stripped) == \E s \in dep_sections : startswith(stripped, s)

skip_line_any_section(deps, stripped) ==
    startswith(stripped, <<"#">>) \/ stripped = <<>>

\* not in_deps or stripped.startswith('#') or not stripped
skip_line(deps, stripped) ==
    ~deps \/ startswith(stripped, <<"#">>) \/ stripped = <<>>

should_update_not_none(latest, current_ver) ==
    latest.some /\ latest.v # current_ver

should_update_always(latest, current_ver) == Truthy(latest)

\* latest and latest != current_ver
should_update(latest, current_ver) ==
    Truthy(latest) /\ latest.v # current_ver

issue_lookup_cached(issued, name) ==
    IF \E k \in 1..Len(issued) : issued[k] = name THEN issued
    ELSE Append(issued, name)

\* get_latest_version(name) is called: one request, whatever was asked before
issue_lookup(issued, name) == Append(issued, name)

\* What the loop body records for a line it passes through
Passed == [looked |-> FALSE, form |-> "none", name |-> <<>>, ver |-> <<>>,
           resp |-> Status404, ret |-> None, printed |-> FALSE]

\* The body of "if match_inline:" / "if match_str:" for the match m of the
\* given form, with the registry answering resp
UpdateEntry(line, m, form, resp) ==
    LET name        == m.name
        current_ver == m.ver
        suffix      == m.suffix
        call        == resolve(variant, resp)
        latest      == call.ret
        update      == should_update(latest, current_ver)
        rebuilt     == IF form = "inline"
                       THEN format_inline(name, latest.v, suffix)
                       ELSE format_str(name, latest.v)
    IN  /\ lookups' = issue_lookup(lookups, name)
        /\ stderr' = IF call.printed
                     THEN Append(stderr, [at |-> idx, name |-> name, detail |-> call.detail])
                     ELSE stderr
        /\ IF call.raised
           THEN /\ pc' = "crashed"
                /\ UNCHANGED <<new_lines, idx, stdout, log>>
           ELSE /\ pc' = pc
                /\ idx' = idx + 1
                /\ stdout' = IF update
                             THEN Append(stdout, [at |-> idx, name |-> name,
                                                  old |-> current_ver, new |-> latest.v])
                             ELSE stdout
                /\ new_lines' = Append(new_lines, IF update THEN rebuilt ELSE line)
                /\ log' = Append(log, [looked |-> TRUE, form |-> form, name |-> name,
                                       ver |-> current_ver, resp |-> resp,
                                       ret |-> latest, printed |-> call.printed])
        /\ UNCHANGED in_deps

\* new_lines.append(line); continue
PassThrough(line) ==
    /\ new_lines' = Append(new_lines, line)
    /\ log' = Append(log, Passed)
    /\ idx' = idx + 1
    /\ UNCHANGED <<pc, stdout, stderr, lookups>>

\* The registry's answer for name; a crate it does not know is a 404
AnswerFor(answer, name) ==
    IF name \in DOMAIN answer THEN answer[name] ELSE Status404

\* One iteration of "for line in lines", the registry answering by answer
LoopBody(answer) ==
    /\ pc = "loop"
    /\ idx <= Len(lines)
    /\ LET line         == lines[idx]
           stripped     == strip(line)
           m_inline     == match_inline(stripped)
           m_str        == match_str(stripped)
       IN  IF is_header(stripped)
           THEN /\ in_deps' = header_in_deps(stripped)
                /\ PassThrough(line)
           ELSE IF skip_line(in_deps, stripped)
           THEN /\ PassThrough(line)
                /\ UNCHANGED in_deps
           ELSE IF m_inline.ok
           THEN UpdateEntry(line, m_inline, "inline", AnswerFor(answer, m_inline.name))
           ELSE IF m_str.ok
           THEN UpdateEntry(line, m_str, "bare", AnswerFor(answer, m_str.name))
           ELSE /\ PassThrough(line)
                /\ UNCHANGED in_deps
    /\ UNCHANGED <<disk, lines, reads, writes, variant, run, registry, disk1, body,
                   result>>

\* with open("Cargo.toml", "r") as f: lines = f.readlines()
ReadManifest ==
    /\ pc = "start"
    /\ lines' = readlines(disk)
    /\ reads' = reads + 1
    /\ in_deps' = FALSE
    /\ new_lines' = <<>>
    /\ idx' = 1
    /\ pc' = "loop"
    /\ UNCHANGED <<disk, stdout, stderr, lookups, log, writes, variant, run,
                   registry, disk1, body, result>>

\* open("Cargo.toml", "r") raises: the run ends before anything is printed
ReadFail ==
    /\ pc = "start"
    /\ pc' = "crashed"
    /\ UNCHANGED <<disk, lines, new_lines, idx, in_deps, stdout, stderr, lookups,
                   log, reads, writes, variant, run, registry, disk1, body, result>>

WriteManifest_early ==
    /\ pc = "loop"
    /\ disk' = writelines(new_lines)
    /\ writes' = writes + 1
    /\ pc' = IF idx > Len(lines) THEN "done" ELSE "loop"
    /\ UNCHANGED <<lines, new_lines, idx, in_deps, stdout, stderr, lookups, log,
                   reads, variant, run, registry, disk1, body, result>>

\* with open("Cargo.toml", "w") as f: f.writelines(new_lines)
WriteManifest ==
    /\ pc = "loop"
    /\ idx > Len(lines)
    /\ disk' = writelines(new_lines)
    /\ writes' = writes + 1
    /\ pc' = "done"
    /\ UNCHANGED <<lines, new_lines, idx, in_deps, stdout, stderr, lookups, log,
                   reads, variant, run, registry, disk1, body, result>>

----------------------------------------------------------------------------
(* One run against a registry that may answer each request differently     *)

MaxLines == 3

H_DEPS == <<"[","d","e","p","e","n","d","e","n","c","i","e","s","]","\n">>
H_DEV == <<"[","d","e","v","-","d","e","p","e","n","d","e","n","c","i","e","s","]","\n">>
H_NESTED == <<"[","d","e","p","e","n","d","e","n","c","i","e","s",".","f","o","o","]","\n">>
H_PROFILE == <<"[","p","r","o","f","i","l","e",".","r","e","l","e","a","s","e","]","\n">>
E_BARE == <<" "," ","a"," ","="," ","\"","1","\""," ","#"," ","c","\n">>
E_INLINE == <<"b","=","{"," ","v","e","r","s","i","o","n"," ","="," ","\"","1","\"",","," ","f","=","\"","x","\""," ","}"," ","#","c">>
U_UNREC == <<"a",".","b"," ","="," ","\"","1","\"","\n">>
L_COMMENT == <<"#"," ","c","\r","\n">>
L_BLANK == <<"\n">>

\* The lines manifests are built from
LinePool == {H_DEPS, H_NESTED, H_PROFILE, E_BARE, E_INLINE, U_UNREC, L_COMMENT,
            L_BLANK}

\* The package names the pool's entries can yield
NamePool == {<<"a">>, <<"b">>}

\* Every file of at most n pool lines
Manifests(n) == {Concat(ls) : ls \in UNION {[1..k -> LinePool] : k \in 1..n}}

\* What the registry may answer to one request
Responses ==
    {Timeout, NetworkErr, Status404, BadJson, NoCrate,
     Ok(V2), Ok(V1), Ok(VEmpty), Ok(VNewline),
     OkVersions(VPre, <<Ver(VPre, FALSE), Ver(V2, TRUE), Ver(V1, FALSE)>>)}

Variants == {"latest", "stable"}

NoBody == Status404
NoResult == [done |-> FALSE, call |-> Returned(None)]

Init ==
    /\ disk \in Manifests(MaxLines)
    /\ variant \in Variants
    /\ pc = "start"
    /\ lines = <<>>
    /\ new_lines = <<>>
    /\ idx = 1
    /\ in_deps = FALSE
    /\ stdout = <<>>
    /\ stderr = <<>>
    /\ lookups = <<>>
    /\ log = <<>>
    /\ reads = 0
    /\ writes = 0
    /\ run = 1
    /\ registry = [n \in NamePool |-> Status404]
    /\ disk1 = <<>>
    /\ body = NoBody
    /\ result = NoResult

\* One loop iteration; the registry answers this request as it likes
ProcessLine == \E resp \in Responses : LoopBody([n \in NamePool |-> resp])

Next == ReadManifest \/ ReadFail \/ ProcessLine \/ WriteManifest

Spec == Init /\ [][Next]_vars

----------------------------------------------------------------------------
(* The resolver on its own, over every response body                       *)

MaxVersions == 3

\* The elements a versions list is built from
VersionPool == {Ver(num, yanked) : num \in {V1, V2, VPre}, yanked \in BOOLEAN}

\* Every 200 response with a decodable body: a versions list of at most n
\* elements or none, crate.max_version present or not
ResolverBodies(n) ==
    {Response("none", 200, TRUE, c, m, TRUE, vs) :
        c \in BOOLEAN, m \in {V2, VPre},
        vs \in UNION {[1..k -> VersionPool] : k \in 0..n}}
    \cup {Response("none", 200, TRUE, c, m, FALSE, <<>>) :
        c \in BOOLEAN, m \in {V2, VPre}}

InitResolver ==
    /\ body \in ResolverBodies(MaxVersions)
    /\ variant \in Variants
    /\ result = NoResult
    /\ pc = "resolver"
    /\ disk = <<>>
    /\ lines = <<>>
    /\ new_lines = <<>>
    /\ idx = 1
    /\ in_deps = FALSE
    /\ stdout = <<>>
    /\ stderr = <<>>
    /\ lookups = <<>>
    /\ log = <<>>
    /\ reads = 0
    /\ writes = 0
    /\ run = 1
    /\ registry = [n \in NamePool |-> Status404]
    /\ disk1 = <<>>

\* One call of get_latest_version, the registry answering body
Resolve ==
    /\ pc = "resolver"
    /\ ~result.done
    /\ result' = [done |-> TRUE, call |-> resolve(variant, body)]
    /\ UNCHANGED <<disk, pc, lines, new_lines, idx, in_deps, stdout, stderr, lookups,
                   log, reads, writes, variant, run, registry, disk1, body>>

NextResolver == Resolve

SpecResolver == InitResolver /\ [][NextResolver]_vars

----------------------------------------------------------------------------
(* Two runs in a row against a registry whose answers do not change        *)

MaxLinesFix == 3

FixLinePool == {H_DEV, H_PROFILE, E_BARE, E_INLINE, L_COMMENT}

FixManifests(n) == {Concat(ls) : ls \in UNION {[1..k -> FixLinePool] : k \in 1..n}}

FixResponses == {Status404, Ok(V2), Ok(VNewline), Ok(VQuote), Ok(VReturn)}

InitFix ==
    /\ disk \in FixManifests(MaxLinesFix)
    /\ registry \in [NamePool -> FixResponses]
    /\ variant \in Variants
    /\ pc = "start"
    /\ lines = <<>>
    /\ new_lines = <<>>
    /\ idx = 1
    /\ in_deps = FALSE
    /\ stdout = <<>>
    /\ stderr = <<>>
    /\ lookups = <<>>
    /\ log = <<>>
    /\ reads = 0
    /\ writes = 0
    /\ run = 1
    /\ disk1 = <<>>
    /\ body = NoBody
    /\ result = NoResult

\* One loop iteration; the registry answers by name, the same every time
ProcessLineFixed == LoopBody(registry)

\* The script is started a second time on the file the first run wrote
Rerun ==
    /\ pc = "done"
    /\ run = 1
    /\ run' = 2
    /\ disk1' = disk
    /\ pc' = "start"
    /\ lines' = <<>>
    /\ new_lines' = <<>>
    /\ idx' = 1
    /\ in_deps' = FALSE
    /\ stdout' = <<>>
    /\ stderr' = <<>>
    /\ lookups' = <<>>
    /\ log' = <<>>
    /\ reads' = 0
    /\ writes' = 0
    /\ UNCHANGED <<disk, variant, registry, body, result>>

NextFix == ReadManifest \/ ReadFail \/ ProcessLineFixed \/ WriteManifest \/ Rerun

SpecFix == InitFix /\ [][NextFix]_vars

----------------------------------------------------------------------------
(* Vocabulary of the properties: what a manifest line is, whatever the     *)
(* loop did with it                                                        *)

\* The three dependency section names
RecognizedSections == {S_dependencies, S_dev_dependencies, S_build_dependencies}

\* Line k of ls is a bracketed line
Bracketed(ls, k) ==
    LET t == strip(ls[k]) IN Len(t) >= 1 /\ t[1] = "[" /\ t[Len(t)] = "]"

\* The most recent bracketed line before line k (0 if none)
LastHeader(ls, k) ==
    LET hs == {j \in 1..(k - 1) : Bracketed(ls, j)}
    IN  IF hs = {} THEN 0 ELSE CHOOSE j \in hs : \A j2 \in hs : j2 <= j

\* Line k lies in a recognized dependency section
InSection(ls, k) ==
    LET h == LastHeader(ls, k)
    IN  h # 0 /\ \E sec \in RecognizedSections : startswith(strip(ls[h]), sec)

\* How line k reads as a dependency entry: inline-table first, then bare string
EntryOf(l) ==
    IF match_inline(strip(l)).ok
    THEN [form |-> "inline"] @@ match_inline(strip(l))
    ELSE [form |-> "bare"] @@ match_str(strip(l))

\* Line k is a matched dependency entry
IsEntry(ls, k) ==
    /\ InSection(ls, k)
    /\ ~Bracketed(ls, k)
    /\ strip(ls[k]) # <<>>
    /\ strip(ls[k])[1] # "#"
    /\ EntryOf(ls[k]).ok

\* The lines the loop has gone through
Processed == 1..Len(new_lines)

\* An "Updating" diagnostic was printed for line k
Announced(k) == \E j \in 1..Len(stdout) : stdout[j].at = k

\* An "Error fetching" diagnostic was printed for line k
Complained(k) == \E j \in 1..Len(stderr) : stderr[j].at = k

\* The registry's answer is a failed lookup
Failed(resp) ==
    \/ resp.exc # "none"
    \/ resp.status # 200
    \/ ~resp.json_ok
    \/ ~resp.crate_ok

----------------------------------------------------------------------------
C2_Original ==
    \A k \in Processed : IsEntry(lines, k) =>
        LET e   == EntryOf(lines[k])
            ret == log[k].ret
        IN  IF ~ret.some \/ ret.v = e.ver
            THEN new_lines[k] = lines[k] /\ ~Announced(k)
            ELSE /\ Announced(k)
                 /\ new_lines[k] = IF e.form = "inline"
                                   THEN format_inline(e.name, ret.v, e.suffix)
                                   ELSE format_str(e.name, ret.v)

(* C2 amended: a matched entry's line is kept, with no "Updating"          *)
(* diagnostic, exactly when the resolver returned None, the empty string   *)
(* or the declared version; for every other returned string the            *)
(* diagnostic "Updating name: old -> new" is printed and the line is       *)
(* rebuilt in its form, the inline form with its trailing text as captured.*)
C2_RewriteRule ==
    \A k \in Processed : IsEntry(lines, k) =>
        LET e   == EntryOf(lines[k])
            ret == log[k].ret
        IN  IF ~ret.some \/ ret.v = <<>> \/ ret.v = e.ver
            THEN new_lines[k] = lines[k] /\ ~Announced(k)
            ELSE /\ \E j \in 1..Len(stdout) :
                        stdout[j] = [at |-> k, name |-> e.name, old |-> e.ver,
                                     new |-> ret.v]
                 /\ new_lines[k] = IF e.form = "inline"
                                   THEN format_inline(e.name, ret.v, e.suffix)
                                   ELSE format_str(e.name, ret.v)

\* The resolver returned the empty string for an entry and the line was kept;
\* another entry of the same run was rebuilt
C2_Witness ==
    \E k, j \in Processed :
        /\ IsEntry(lines, k) /\ log[k].ret = Some(VEmpty)
        /\ new_lines[k] = lines[k] /\ ~Announced(k)
        /\ IsEntry(lines, j) /\ Announced(j) /\ new_lines[j] # lines[j]

(* C3 as stated: every failed lookup (non-200 status, timeout, network     *)
(* failure, undecodable body) returns None and prints one "Error fetching" *)
(* diagnostic; no failure is silent.                                       *)
C3_EveryFailureReported ==
    \A k \in Processed : (log[k].looked /\ Failed(log[k].resp)) =>
        log[k].ret = None /\ log[k].printed /\ Complained(k)

(* C4: whatever the outcome of each lookup, the loop goes on: a run ends   *)
(* early only when the manifest cannot be opened, an entry whose lookup    *)
(* failed keeps its line, every matched entry of the file has been looked  *)
(* up when the loop ends, and a finished run has written one line per line *)
(* read.                                                                   *)
C4_FailureIsolation ==
    /\ pc \in {"start", "loop", "done", "crashed"}
    /\ pc = "crashed" => reads = 0
    /\ \A k \in Processed :
          (log[k].looked /\ Failed(log[k].resp)) => new_lines[k] = lines[k]
    /\ (pc = "loop" /\ idx > Len(lines)) =>
          /\ Len(new_lines) = Len(lines)
          /\ \A k \in 1..Len(lines) : IsEntry(lines, k) => log[k].looked
    /\ pc = "done" => Len(new_lines) = Len(lines) /\ writes = 1

\* A finished run in which a lookup failed and a later entry was rebuilt
C4_Witness ==
    /\ pc = "done"
    /\ \E k, j \in Processed :
          /\ k < j
          /\ log[k].looked /\ Failed(log[k].resp)
          /\ log[j].looked /\ new_lines[j] # lines[j]

NESTED == <<"[","d","e","p","e","n","d","e","n","c","i","e","s",".","f","o","o","]">>

(* C6 as stated: after the header [dependencies.foo] the section state is  *)
(* true, so the entries that follow it are looked up and rewritten.        *)
C6_Original ==
    (pc = "loop" /\ idx >= 2 /\ strip(lines[idx - 1]) = NESTED) => in_deps

(* C6 amended: after the header [dependencies.foo] the section state is    *)
(* false, so the entry-shaped lines that follow it, up to the next         *)
(* bracketed line, are passed through unchanged and are not looked up.     *)
C6_NestedHeaderLeavesSection ==
    /\ (pc = "loop" /\ idx >= 2 /\ strip(lines[idx - 1]) = NESTED) => ~in_deps
    /\ \A k \in Processed :
          (LastHeader(lines, k) # 0 /\ strip(lines[LastHeader(lines, k)]) = NESTED)
             => new_lines[k] = lines[k] /\ ~log[k].looked

\* A finished run that passed an entry-shaped line under [dependencies.foo],
\* itself under [dependencies], through without a lookup
C6_Witness ==
    /\ pc = "done"
    /\ \E k \in 3..Len(lines) :
          /\ strip(lines[k - 2]) = S_dependencies
          /\ strip(lines[k - 1]) = NESTED
          /\ EntryOf(lines[k]).ok
          /\ new_lines[k] = lines[k]
          /\ ~log[k].looked

\* What holds of the reads and the write in every state of a run
C7_State ==
    /\ reads <= 1
    /\ writes <= 1
    /\ (lookups # <<>> \/ new_lines # <<>>) => reads = 1
    /\ pc \in {"loop", "done"} => reads = 1
    /\ writes = 1 =>
          /\ pc = "done"
          /\ idx > Len(lines)
          /\ Len(new_lines) = Len(lines)
          /\ disk = Concat(new_lines)
    /\ pc = "done" => writes = 1
    /\ \A k \in Processed :
          \/ new_lines[k] = lines[k]
          \/ IsEntry(lines, k) /\ startswith(new_lines[k], EntryOf(lines[k]).name)

\* What holds of every step: the file changes only in the write, the write
\* comes after the whole loop, and nothing is looked up or read after it
C7_Step ==
    /\ disk' # disk => writes' = writes + 1
    /\ writes' # writes => idx > Len(lines) /\ lookups' = lookups /\ pc' = "done"
    /\ writes = 1 => lookups' = lookups /\ reads' = reads /\ disk' = disk
    /\ lookups' # lookups => reads = 1 /\ writes = 0 /\ writes' = 0

(* C7: the manifest is read once before any lookup and written once, as a  *)
(* whole, after every line was processed and every lookup returned, also   *)
(* when no entry changed; no write precedes or interleaves with a lookup,  *)
(* and what is written has one line per line read, in the order read.      *)
C7_ReadOnceWriteOnce == [](C7_State) /\ [][C7_Step]_vars

\* A finished run that looked entries up, changed none and still wrote
C7_Witness ==
    /\ pc = "done"
    /\ writes = 1
    /\ Len(lookups) >= 2
    /\ new_lines = lines
    /\ disk = Concat(lines)

\* The names of the matched entries among the first k lines of ls, in order
RECURSIVE EntryNames(_, _)
EntryNames(ls, k) ==
    IF k = 0 THEN <<>>
    ELSE IF IsEntry(ls, k) THEN Append(EntryNames(ls, k - 1), EntryOf(ls[k]).name)
    ELSE EntryNames(ls, k - 1)

(* C8: the lookups issued are exactly the package names of the matched     *)
(* entries in file order: one per matched entry, repeated names looked up  *)
(* again, failed lookups not retried, none for any other line.             *)
C8_LookupSequence ==
    /\ lookups = EntryNames(lines, Len(new_lines))
    /\ \A k \in Processed : log[k].looked <=> IsEntry(lines, k)

\* A finished run with two entries of one name, the first lookup failing:
\* the name was looked up twice
C8_Witness ==
    /\ pc = "done"
    /\ Len(lookups) = 2
    /\ lookups[1] = lookups[2]
    /\ \E k \in Processed : log[k].looked /\ Failed(log[k].resp)

\* The white space line l starts with
Indentation(l) == SubSeq(l, 1, Len(l) - Len(lstrip(l)))

\* What follows the entry pattern on the stripped line l
AfterEntry(l) == SubSeq(strip(l), EntryOf(l).stop + 1, Len(strip(l)))

(* C9 as stated: a rewritten entry line keeps its leading indentation and  *)
(* the text after the bare form's closing quote or the inline form's final *)
(* brace.                                                                  *)
C9_RestOfLineKept ==
    \A k \in Processed : (IsEntry(lines, k) /\ new_lines[k] # lines[k]) =>
        /\ startswith(new_lines[k], Indentation(lines[k]))
        /\ endswith(strip(new_lines[k]), AfterEntry(lines[k]))

\* The positions of versions that are not yanked and hold no hyphen
Qualifying(versions) ==
    {j \in 1..Len(versions) :
        versions[j].yanked = FALSE /\ "-" \notin {versions[j].num[c] : c \in 1..Len(versions[j].num)}}

(* C5: on a 200 response the stable resolver returns the num of the first  *)
(* element of versions, in the order delivered, that is not yanked and     *)
(* holds no hyphen, and crate.max_version when no element qualifies, a     *)
(* missing or empty list included.                                         *)
C5_StableSelection ==
    (result.done /\ variant = "stable") =>
        LET versions == IF body.has_versions THEN body.versions ELSE <<>>
            Q == Qualifying(versions)
            first == CHOOSE j \in Q : \A j2 \in Q : j <= j2
        IN  /\ Q # {} => result.call = Returned(Some(versions[first].num))
            /\ (Q = {} /\ body.crate_ok) => result.call = Returned(Some(body.max_version))

\* The stable resolver returned 2 for [2-b, 2, 1 (yanked)] with max_version 2-b
C5_Witness ==
    /\ result.done
    /\ variant = "stable"
    /\ body.has_versions
    /\ body.versions = <<Ver(VPre, FALSE), Ver(V2, FALSE), Ver(V1, TRUE)>>
    /\ body.max_version = VPre
    /\ result.call.ret = Some(V2)

\* What the resolver of this run returns for package name n
Resolved(n) == resolve(variant, registry[n]).ret

\* Character c occurs in string v
Holds(v, c) == \E k \in 1..Len(v) : v[k] = c

\* The second run found the file as the first left it, and left it so
SecondRunIdle ==
    /\ run = 2 => stdout = <<>>
    /\ (run = 2 /\ pc = "done") => disk = disk1

(* C10 as stated: when the resolver is a fixed function from names to None *)
(* or a non-empty version without a double quote, a second run writes the  *)
(* file the first run wrote and prints no "Updating" diagnostic.           *)
C10_Original ==
    (\A n \in NamePool :
        Resolved(n).some => (Resolved(n).v # <<>> /\ ~Holds(Resolved(n).v, "\"")))
    => SecondRunIdle

(* C10 amended: when the resolver is a fixed function from names to None   *)
(* or a non-empty version without a double quote, a line feed or a         *)
(* carriage return, a second run writes the file the first run wrote and   *)
(* prints no "Updating" diagnostic.                                        *)
C10_Fixpoint ==
    (\A n \in NamePool :
        Resolved(n).some =>
            /\ Resolved(n).v # <<>>
            /\ ~Holds(Resolved(n).v, "\"")
            /\ ~Holds(Resolved(n).v, "\n")
            /\ ~Holds(Resolved(n).v, "\r"))
    => SecondRunIdle

\* A finished second run on a file whose entries the first run rebuilt in
\* both forms, to versions the second run found declared
C10_Witness ==
    /\ run = 2
    /\ pc = "done"
    /\ disk = disk1
    /\ \A n \in NamePool : Resolved(n) = Some(V2)
    /\ \E k, j \in Processed :
          /\ IsEntry(lines, k) /\ EntryOf(lines[k]).form = "inline"
          /\ EntryOf(lines[k]).ver = V2
          /\ IsEntry(lines, j) /\ EntryOf(lines[j]).form = "bare"
          /\ EntryOf(lines[j]).ver = V2

====
